---- MODULE Spec2Model ----
(***************************************************************************)
(* Model of the ipnserver Server: the session tracker (active requests,   *)
(* single-active-user check, identity-change and idle resets), the        *)
(* permission calculator and the Server lifecycle (SetLocalBackend, Run,  *)
(* startBackendIfNeeded).  The LocalBackend is a collaborator: the model  *)
(* keeps only the calls the Server makes on it.                            *)
(***************************************************************************)
EXTENDS Integers, FiniteSets, Sequences, TLC

\* ------------------------------------------------------------- bounds
NReq == 3
NUser == 2
NBind == 2

Reqs == 1..NReq
Users == 1..NUser
Binders == 1..NBind

\* The empty ipn.WindowsUserID (""), the nil *peercred.Creds, the nil
\* *LocalBackend, the free mutex and the Run goroutine's thread id.
NoUser == 0
NoCreds == 0
NilBackend == 0
Unlocked == 0
RunThread == 0

LifeThreads == {RunThread} \cup Binders
GOOSes == {"windows", "linux", "js"}

VARIABLES
    goos,             \* envknob.GOOS()
    permitCertUID,    \* envknob.String("TS_PERMIT_CERT_UID")
    resetOnZero,      \* Server.resetOnZero
    lb,               \* Server.lb (atomic pointer): NilBackend or the binder's backend
    runCalled,        \* Server.runCalled
    startBackendOnce, \* Server.startBackendOnce has fired
    mu,               \* Server.mu: Unlocked or the request holding it
    lastUserID,       \* Server.lastUserID
    activeReqs,       \* Server.activeReqs: request -> ConnIdentity
    \* the LocalBackend, as seen through the calls made on it
    lbCurrentUserID,  \* last SetCurrentUserID argument
    lbDenied,         \* user ids CheckIPNConnectionAllowed rejects
    inServerMode,     \* InServerMode()
    prefsValid,       \* Prefs().Valid()
    operatorUID,      \* OperatorUserID()
    setUserCalls,     \* number of SetCurrentUserID calls
    identResets,      \* ResetForClientDisconnect calls from addActiveHTTPRequest's defer
    idleResets,       \* ResetForClientDisconnect calls from onDone
    startCalls,       \* number of Start calls
    shutdownCalls,    \* number of Shutdown calls
    startAfterShutdown, \* a Start call was made after a Shutdown call
    \* one serveHTTP goroutine per request
    pc, ci, doReset, remain,
    lastPerm,         \* the permissions computed last
    lastResp,         \* the last error answer serveHTTP gave (http.Error)
    \* SetLocalBackend callers: position, and the argument of the call
    bpc, barg,
    \* position inside startBackendIfNeeded, per lifecycle thread
    spc,
    \* the Run goroutine, its context and its listener
    rpc, ctxDone, runDone, lnCloses, serveErr, runErr, lbAtExit,
    \* history: observed lastUserID transitions and transitions to idle
    userSwitches, idleTransitions

serverVars == <<goos, permitCertUID, resetOnZero, lb, runCalled, startBackendOnce, mu, lastUserID, activeReqs>>
backendVars == <<lbCurrentUserID, lbDenied, inServerMode, prefsValid, operatorUID, setUserCalls,
                 identResets, idleResets, startCalls, shutdownCalls, startAfterShutdown>>
reqVars == <<pc, ci, doReset, remain, lastPerm, lastResp>>
lifeVars == <<bpc, spc, rpc, ctxDone, runDone, lnCloses, serveErr, runErr, lbAtExit>>
histVars == <<userSwitches, idleTransitions, barg>>
vars == <<serverVars, backendVars, reqVars, lifeVars, histVars>>

\* ---------------------------------------------------------- strings
\* A string is the sequence of its characters.
NoString == <<>>

DigitChars == <<"0", "1", "2", "3", "4", "5", "6", "7", "8", "9">>

\* A user id in string form, as peercred and os/user give it.
RECURSIVE Itoa(_)
Itoa(n) == IF n < 10 THEN <<DigitChars[n + 1]>>
           ELSE Itoa(n \div 10) \o <<DigitChars[(n % 10) + 1]>>

\* isAllDigit accepting every string.
isAllDigit_Always(str) == TRUE

\* isAllDigit lines 191-198.
isAllDigit(str) == \A i \in 1..Len(str) : str[i] \in {DigitChars[d] : d \in 1..10}

\* The user ids peer credentials carry, and the accounts of the machine.
CredUIDs == {1000, 1001}

UserName(u) == <<"u">> \o Itoa(u)

\* os/user.Lookup(name): the account of that name, or an error.
userLookup(name) ==
    IF \E u \in CredUIDs : UserName(u) = name
    THEN [uid |-> Itoa(CHOOSE u \in CredUIDs : UserName(u) = name), err |-> FALSE]
    ELSE [uid |-> NoString, err |-> TRUE]

\* userIDFromString returning its argument unresolved.
userIDFromString_NoLookup(v) == v

\* userIDFromString lines 180-189.
userIDFromString(v) ==
    IF v = NoString \/ isAllDigit(v) THEN v
    ELSE IF userLookup(v).err THEN NoString
    ELSE userLookup(v).uid

\* The values TS_PERMIT_CERT_UID takes: unset, a numeric id, the same id
\* with a leading zero, a user name, a name of no account, a string that
\* is neither a number nor a name.
UnknownName == <<"n", "o", "b", "o", "d", "y">>

CertConfigs ==
    {NoString, Itoa(1000), Itoa(1001), <<"0">> \o Itoa(1000), UserName(1000), UnknownName,
     <<"1", "x">>}

\* ------------------------------------------------------- identities
\* A connIdentity as getConnIdentity builds it: the pipe strategy fills
\* UserID, the credential strategy fills IsUnixSock and Creds.
NoIdentity == [userID |-> NoUser, isUnixSock |-> FALSE, creds |-> NoCreds, notWindows |-> FALSE]

PipeIdentity(u) == [userID |-> u, isUnixSock |-> FALSE, creds |-> NoCreds, notWindows |-> FALSE]

CredIdentity(sock, c) == [userID |-> NoUser, isUnixSock |-> sock, creds |-> c, notWindows |-> TRUE]

ConnIdentities(os) ==
    IF os = "windows"
    THEN {PipeIdentity(u) : u \in Users}
    ELSE {CredIdentity(TRUE, 1), CredIdentity(FALSE, NoCreds)}

\* Credentials peercred.Get returned without a user id.
AnonCreds == -1

\* A unix socket with or without credentials (peercred.Get can fail), or
\* another kind of connection, for which peercred.Get gives none.
AllCredIdentities ==
    {CredIdentity(TRUE, c) : c \in {NoCreds, AnonCreds} \cup CredUIDs}
        \cup {CredIdentity(FALSE, NoCreds)}

\* The identities getConnIdentity can give a connection of each platform,
\* in full: a pipe client's user on the pipe platform; everywhere else
\* (lines 76-82 make no difference between the other platforms) any socket
\* kind and credential.
PermIdentities(os) ==
    IF os = "windows" THEN {PipeIdentity(u) : u \in Users}
    ELSE AllCredIdentities

\* peercred: Creds.UserID() gives the id and whether it is known.
credsUserID(c) ==
    IF c = AnonCreds THEN [uid |-> NoString, ok |-> FALSE]
    ELSE [uid |-> Itoa(c), ok |-> TRUE]

\* ConnIdentity.WindowsUserID: empty off the pipe platform.
WindowsUserID(os, id) == IF os = "windows" THEN id.userID ELSE NoUser

\* LocalBackend.CheckIPNConnectionAllowed: TRUE when the backend permits id.
CheckIPNConnectionAllowed(os, id) == WindowsUserID(os, id) \notin lbDenied

\* ------------------------------------------------- session tracker
\* Server.mustBackend: TRUE when the load finds a backend, FALSE when it panics.
mustBackend == lb # NilBackend

\* checkConnIdentityLocked without the comparison against the active user.
checkConnIdentityLocked_NoCompare(id) ==
    {IF ~mustBackend THEN "panic"
     ELSE IF CheckIPNConnectionAllowed(goos, id) THEN "ok" ELSE "denied"}

\* Server.checkConnIdentityLocked: the results the call can give.  The
\* range loop over the map takes an arbitrary entry as "active".
\*   "ok"      nil
\*   "inUse"   inUseOtherUserError: already in use by another user
\*   "denied"  inUseOtherUserError wrapping the backend's refusal
\*   "panic"   mustBackend found no backend
checkConnIdentityLocked(id) ==
    LET backend == IF ~mustBackend THEN "panic"
                   ELSE IF CheckIPNConnectionAllowed(goos, id) THEN "ok" ELSE "denied"
    IN  IF Cardinality(DOMAIN activeReqs) > 0
        THEN {IF WindowsUserID(goos, id) # WindowsUserID(goos, activeReqs[a])
              THEN "inUse" ELSE backend : a \in DOMAIN activeReqs}
        ELSE {backend}

\* mak.Set(&s.activeReqs, req, ci)
makSet(m, r, id) == [x \in DOMAIN m \cup {r} |-> IF x = r THEN id ELSE m[x]]

\* delete(s.activeReqs, req)
mapDelete(m, r) == [x \in DOMAIN m \ {r} |-> m[x]]

\* addActiveHTTPRequest line 251: this request is the first active one of a
\* user with a non-empty id.
firstOfUser(uid, reqs) == uid # NoUser /\ Cardinality(DOMAIN reqs) = 1

\* doReset without the test that a previous user was recorded.
identityChanged_NoEmptyCheck(last, uid) == last # uid

\* doReset whenever a previous user was recorded, changed or not.
identityChanged_AnyPrevious(last, uid) == last # NoUser

\* addActiveHTTPRequest lines 254-257: the value given to doReset.
identityChanged(last, uid) == last # uid /\ last # NoUser

\* onDone without the InServerMode test.
idleReset_IgnoreServerMode(rem) == rem = 0 /\ resetOnZero

\* onDone resetting on every completion, other requests active or not.
idleReset_AnyRemain(rem) == resetOnZero /\ ~inServerMode

\* onDone lines 268-274: whether onDone calls ResetForClientDisconnect.
idleReset(rem) == rem = 0 /\ resetOnZero /\ ~inServerMode

\* ipnlocal: ResetForClientDisconnect holds the backend's internal lock
\* from its entry to its return; the other backend methods the Server
\* calls (CheckIPNConnectionAllowed, SetCurrentUserID, InServerMode,
\* OperatorUserID) take and release it within the call.
ResetPcs == {"identReset", "idleReset"}

backendLocked == \E r \in Reqs : pc[r] \in ResetPcs

\* ipnauth: ConnIdentity.IsReadonlyConn(operatorUID)
IsReadonlyConn(id, op) == id.creds \in {NoCreds, AnonCreds} \/ id.creds = op

\* localAPIPermissions without the negation of IsReadonlyConn.
localAPIPermissions_NoNegation(id) ==
    IF goos = "windows"
    THEN {IF res = "ok" THEN <<TRUE, TRUE>> ELSE <<FALSE, FALSE>> :
            res \in checkConnIdentityLocked(id)}
    ELSE IF goos = "js" THEN {<<TRUE, TRUE>>}
    ELSE IF id.isUnixSock THEN {<<TRUE, IsReadonlyConn(id, operatorUID)>>}
    ELSE {<<FALSE, FALSE>>}

\* Server.localAPIPermissions: the <<read, write>> pairs the call can give.
localAPIPermissions(id) ==
    IF goos = "windows"
    THEN {IF res = "ok" THEN <<TRUE, TRUE>> ELSE <<FALSE, FALSE>> :
            res \in checkConnIdentityLocked(id)}
    ELSE IF goos = "js" THEN {<<TRUE, TRUE>>}
    ELSE IF id.isUnixSock THEN {<<TRUE, ~IsReadonlyConn(id, operatorUID)>>}
    ELSE {<<FALSE, FALSE>>}

\* localAPIPermissions lines 163 and 172: the call reaches a backend method
\* (CheckIPNConnectionAllowed, OperatorUserID).
permissionsCallBackend(id) ==
    IF goos = "windows"
    THEN checkConnIdentityLocked(id) # {"inUse"}
    ELSE goos # "js" /\ id.isUnixSock

\* connCanFetchCerts granting on the credential alone.
connCanFetchCerts_AnyCreds(id) == id.isUnixSock /\ id.creds # NoCreds

\* Server.connCanFetchCerts lines 210-218.
connCanFetchCerts(id) ==
    /\ id.isUnixSock
    /\ id.creds # NoCreds
    /\ credsUserID(id.creds).ok
    /\ credsUserID(id.creds).uid = userIDFromString(permitCertUID)

\* No permissions computed yet; once computed, lastPerm is
\* <<PermitRead, PermitWrite, PermitCert, the identity they were computed for>>.
NoPerm == <<>>

CtxValues == {"identity", "error", "nil"}

\* r.Method, as far as serveHTTP tells methods apart (line 63).
Methods == {"GET", "CONNECT"}

\* hs.Serve has been entered: connections are accepted and served.
Serving == rpc \in {"serve", "serveRet", "runDone", "shutdown", "done"}

\* serveHTTP without the test for a missing backend.
backendUnavailable_Never == FALSE

\* serveHTTP lines 76-80: s.lb.Load() gives nil.
backendUnavailable == lb = NilBackend

\* serveHTTP lines 63-94 and addActiveHTTPRequest lines 226-242: a request
\* of the given method whose connection context holds v (an identity id, an
\* error, or nothing) is answered at once or goes on to take s.mu.  A CONNECT
\* request never gets as far as the backend test: off the pipe platform it
\* is answered 405, on it serveHTTP hands it to handleProxyConnectConn and
\* returns, with no answer of its own.  A request that has to wait for s.mu
\* arrives, in the model, when it gets it.
Arrive(r, method, v, id) ==
    /\ pc[r] = "idle"
    /\ Serving
    /\ IF method = "CONNECT"
       THEN /\ lastResp' = IF goos = "windows" THEN lastResp ELSE "badMethod"
            /\ pc' = [pc EXCEPT ![r] = "finished"]
            /\ UNCHANGED <<ci, mu>>
       ELSE IF backendUnavailable
       THEN /\ lastResp' = "unavailable"
            /\ pc' = [pc EXCEPT ![r] = "finished"]
            /\ UNCHANGED <<ci, mu>>
       ELSE IF v = "error"
       THEN /\ lastResp' = "unauthorized"
            /\ pc' = [pc EXCEPT ![r] = "finished"]
            /\ UNCHANGED <<ci, mu>>
       ELSE IF v = "nil"
       THEN /\ lastResp' = "internal"
            /\ pc' = [pc EXCEPT ![r] = "finished"]
            /\ UNCHANGED <<ci, mu>>
       ELSE IF ~mustBackend
       THEN /\ pc' = [pc EXCEPT ![r] = "panic"]
            /\ UNCHANGED <<ci, mu, lastResp>>
       ELSE /\ mu = Unlocked
            /\ mu' = r
            /\ pc' = [pc EXCEPT ![r] = "locked"]
            /\ ci' = [ci EXCEPT ![r] = id]
            /\ lastResp' = lastResp
    /\ UNCHANGED <<goos, permitCertUID, resetOnZero, lb, runCalled, startBackendOnce, lastUserID, activeReqs,
                   backendVars, doReset, remain, lastPerm, lifeVars, histVars>>

\* The lock kept by its holder until after the reset call.
muUnlock_AfterReset(holder) == holder

\* s.mu.Unlock(): deferred at line 243 after the reset closure of line 235,
\* so run before it; called at line 266 before the idle reset.
muUnlock(holder) == Unlocked

\* addActiveHTTPRequest lines 245-260 and the deferred s.mu.Unlock().
Register(r) ==
    /\ pc[r] = "locked"
    /\ mu = r
    /\ \E res \in checkConnIdentityLocked(ci[r]) :
         /\ res \in {"ok", "denied"} => ~backendLocked
         /\ IF res # "ok"
            THEN /\ lastResp' = res
                 /\ pc' = [pc EXCEPT ![r] = IF res = "panic" THEN "panic" ELSE "finished"]
                 /\ ci' = [ci EXCEPT ![r] = NoIdentity]
                 /\ UNCHANGED <<activeReqs, lastUserID, lbCurrentUserID, setUserCalls, doReset,
                                userSwitches>>
            ELSE LET uid == WindowsUserID(goos, ci[r])
                     reqs == makSet(activeReqs, r, ci[r])
                     first == firstOfUser(uid, reqs)
                 IN  /\ activeReqs' = reqs
                     /\ lbCurrentUserID' = IF first THEN uid ELSE lbCurrentUserID
                     /\ setUserCalls' = IF first THEN setUserCalls + 1 ELSE setUserCalls
                     /\ doReset' = [doReset EXCEPT ![r] =
                                      first /\ identityChanged(lastUserID, uid)]
                     /\ lastUserID' = IF first /\ lastUserID # uid THEN uid ELSE lastUserID
                     /\ userSwitches' = IF lastUserID' # lastUserID /\ lastUserID # NoUser
                                        THEN userSwitches + 1 ELSE userSwitches
                     /\ pc' = [pc EXCEPT ![r] = "deferReset"]
                     /\ UNCHANGED <<lastResp, ci>>
    /\ mu' = muUnlock(r)
    /\ UNCHANGED <<goos, permitCertUID, resetOnZero, lb, runCalled, startBackendOnce,
                   lbDenied, inServerMode, prefsValid, operatorUID, identResets, idleResets,
                   startCalls, shutdownCalls, startAfterShutdown,
                   remain, lastPerm, lifeVars, idleTransitions, barg>>

\* addActiveHTTPRequest lines 235-240: the deferred reset, run after the
\* deferred unlock and before the function returns to serveHTTP.  With
\* doReset set the goroutine enters ResetForClientDisconnect.
DeferReset(r) ==
    /\ pc[r] = "deferReset"
    /\ doReset[r] => ~backendLocked
    /\ identResets' = IF doReset[r] THEN identResets + 1 ELSE identResets
    /\ pc' = [pc EXCEPT ![r] = IF doReset[r] THEN "identReset" ELSE "app"]
    /\ UNCHANGED <<serverVars, lbCurrentUserID, lbDenied, inServerMode, prefsValid, operatorUID,
                   setUserCalls, idleResets, startCalls, shutdownCalls, startAfterShutdown,
                   ci, doReset, remain, lastPerm, lastResp, lifeVars, histVars>>

\* serveHTTP lines 101-107: the /localapi/ handler of request r is given its
\* permissions (localAPIPermissions takes and releases s.mu on the pipe
\* platform).
Permissions(r) ==
    /\ pc[r] = "app"
    /\ goos = "windows" => mu = Unlocked
    /\ permissionsCallBackend(ci[r]) => ~backendLocked
    /\ \E p \in localAPIPermissions(ci[r]) :
          lastPerm' = <<p[1], p[2], connCanFetchCerts(ci[r]), ci[r]>>
    /\ UNCHANGED <<serverVars, backendVars, pc, ci, doReset, remain, lastResp, lifeVars,
                   histVars>>

\* onDone line 263: s.mu.Lock(), once the handler has finished.
DoneLock(r) ==
    /\ pc[r] = "app"
    /\ mu = Unlocked
    /\ mu' = r
    /\ pc' = [pc EXCEPT ![r] = "doneLocked"]
    /\ UNCHANGED <<goos, permitCertUID, resetOnZero, lb, runCalled, startBackendOnce, lastUserID, activeReqs,
                   backendVars, ci, doReset, remain, lastPerm, lastResp, lifeVars, histVars>>

\* onDone lines 264-266: delete, count, unlock.
DoneDelete(r) ==
    /\ pc[r] = "doneLocked"
    /\ mu = r
    /\ activeReqs' = mapDelete(activeReqs, r)
    /\ remain' = [remain EXCEPT ![r] = Cardinality(DOMAIN activeReqs')]
    /\ idleTransitions' = IF DOMAIN activeReqs' = {} THEN idleTransitions + 1
                          ELSE idleTransitions
    /\ mu' = muUnlock(r)
    /\ pc' = [pc EXCEPT ![r] = "doneCheck"]
    /\ UNCHANGED <<goos, permitCertUID, resetOnZero, lb, runCalled, startBackendOnce, lastUserID,
                   backendVars, ci, doReset, lastPerm, lastResp, lifeVars, userSwitches, barg>>

\* onDone lines 268-275: the idle reset, after the unlock.  When the test
\* passes the goroutine enters ResetForClientDisconnect; otherwise the
\* request is over.
DoneReset(r) ==
    /\ pc[r] = "doneCheck"
    /\ (remain[r] = 0 /\ resetOnZero) => ~backendLocked
    /\ idleResets' = IF idleReset(remain[r]) THEN idleResets + 1 ELSE idleResets
    /\ IF idleReset(remain[r])
       THEN /\ pc' = [pc EXCEPT ![r] = "idleReset"]
            /\ UNCHANGED <<ci, doReset, remain>>
       ELSE /\ pc' = [pc EXCEPT ![r] = "finished"]
            /\ ci' = [ci EXCEPT ![r] = NoIdentity]
            /\ doReset' = [doReset EXCEPT ![r] = FALSE]
            /\ remain' = [remain EXCEPT ![r] = 0]
    /\ UNCHANGED <<serverVars, lbCurrentUserID, lbDenied, inServerMode, prefsValid, operatorUID,
                   setUserCalls, identResets, startCalls, shutdownCalls, startAfterShutdown,
                   lastPerm, lastResp, lifeVars, histVars>>

\* lb.ResetForClientDisconnect() returns (lines 238 and 274) and releases
\* the backend's lock: the request goes on to its handler, or is over.
ResetReturn(r) ==
    /\ pc[r] \in ResetPcs
    /\ IF pc[r] = "identReset"
       THEN /\ pc' = [pc EXCEPT ![r] = "app"]
            /\ UNCHANGED <<ci, doReset, remain>>
       ELSE /\ pc' = [pc EXCEPT ![r] = "finished"]
            /\ ci' = [ci EXCEPT ![r] = NoIdentity]
            /\ doReset' = [doReset EXCEPT ![r] = FALSE]
            /\ remain' = [remain EXCEPT ![r] = 0]
    /\ UNCHANGED <<serverVars, backendVars, lastPerm, lastResp, lifeVars, histVars>>

\* One step of the serveHTTP goroutine of request r.
RequestStep(r) ==
    \/ \E m \in Methods, v \in CtxValues, id \in ConnIdentities(goos) : Arrive(r, m, v, id)
    \/ Register(r)
    \/ DeferReset(r)
    \/ Permissions(r)
    \/ DoneLock(r)
    \/ DoneDelete(r)
    \/ DoneReset(r)
    \/ ResetReturn(r)

RequestNext == \E r \in Reqs : RequestStep(r)


\* -------------------------------------------------------- lifecycle
\* startBackendIfNeeded returns to its caller: Run goes on to hs.Serve,
\* SetLocalBackend returns.
sbiReturn(t) ==
    /\ spc' = [spc EXCEPT ![t] = "none"]
    /\ IF t = RunThread
       THEN rpc' = "serve" /\ bpc' = bpc
       ELSE bpc' = [bpc EXCEPT ![t] = "done"] /\ rpc' = rpc

\* A plain Store in place of the CompareAndSwap.
compareAndSwapNil_Store(cur) == TRUE

\* SetLocalBackend line 303: whether s.lb.CompareAndSwap(nil, lb) swaps.
compareAndSwapNil(cur) == cur = NilBackend

\* SetLocalBackend lines 300-305: panic on nil, then CompareAndSwap(nil, lb).
SetLocalBackend(b, arg) ==
    /\ bpc[b] = "init"
    /\ barg' = [barg EXCEPT ![b] = arg]
    /\ IF arg = NilBackend
       THEN bpc' = [bpc EXCEPT ![b] = "panicNil"] /\ UNCHANGED <<lb, spc>>
       ELSE IF ~compareAndSwapNil(lb)
       THEN bpc' = [bpc EXCEPT ![b] = "panicAlreadySet"] /\ UNCHANGED <<lb, spc>>
       ELSE /\ lb' = arg
            /\ bpc' = [bpc EXCEPT ![b] = "sbi"]
            /\ spc' = [spc EXCEPT ![b] = "loadRun"]
    /\ UNCHANGED <<goos, permitCertUID, resetOnZero, runCalled, startBackendOnce, mu, lastUserID, activeReqs,
                   backendVars, reqVars, rpc, ctxDone, runDone, lnCloses, serveErr, runErr,
                   lbAtExit, userSwitches, idleTransitions>>

\* startBackendIfNeeded lines 312-314: b.runCalled.Load()
SbiLoadRunCalled(t) ==
    /\ spc[t] = "loadRun"
    /\ IF ~runCalled THEN sbiReturn(t)
       ELSE spc' = [spc EXCEPT ![t] = "loadLb"] /\ UNCHANGED <<rpc, bpc>>
    /\ UNCHANGED <<serverVars, backendVars, reqVars, ctxDone, runDone, lnCloses, serveErr,
                   runErr, lbAtExit, histVars>>

\* startBackendIfNeeded lines 315-318: b.lb.Load()
SbiLoadBackend(t) ==
    /\ spc[t] = "loadLb"
    /\ IF lb = NilBackend THEN sbiReturn(t)
       ELSE spc' = [spc EXCEPT ![t] = "start"] /\ UNCHANGED <<rpc, bpc>>
    /\ UNCHANGED <<serverVars, backendVars, reqVars, ctxDone, runDone, lnCloses, serveErr,
                   runErr, lbAtExit, histVars>>

\* startBackendIfNeeded line 319: whether startBackendOnce.Do is reached.
prefsAllowStart == prefsValid

\* Start called without the sync.Once.
onceRuns_Always(fired) == TRUE

\* startBackendOnce.Do: whether the function given to it runs.
onceRuns(fired) == ~fired

\* startBackendIfNeeded lines 319-323: Prefs().Valid() and the once-guarded Start.
SbiStart(t) ==
    /\ spc[t] = "start"
    /\ LET starts == prefsAllowStart /\ onceRuns(startBackendOnce)
       IN  /\ startBackendOnce' = (startBackendOnce \/ prefsAllowStart)
           /\ startCalls' = IF starts THEN startCalls + 1 ELSE startCalls
           /\ startAfterShutdown' = (startAfterShutdown \/ (starts /\ shutdownCalls > 0))
    /\ sbiReturn(t)
    /\ UNCHANGED <<goos, permitCertUID, resetOnZero, lb, runCalled, mu, lastUserID, activeReqs,
                   lbCurrentUserID, lbDenied, inServerMode, prefsValid, operatorUID,
                   setUserCalls, identResets, idleResets, shutdownCalls,
                   reqVars, ctxDone, runDone, lnCloses, serveErr, runErr, lbAtExit, histVars>>

\* Run lines 338-358: runCalled.Store(true), the two defers and the listener
\* closer are set up, and startBackendIfNeeded is entered.
RunStart ==
    /\ rpc = "init"
    /\ runCalled' = TRUE
    /\ rpc' = "sbi"
    /\ spc' = [spc EXCEPT ![RunThread] = "loadRun"]
    /\ UNCHANGED <<goos, permitCertUID, resetOnZero, lb, startBackendOnce, mu, lastUserID, activeReqs,
                   backendVars, reqVars, bpc, ctxDone, runDone, lnCloses, serveErr, runErr,
                   lbAtExit, histVars>>

\* The caller of Run cancels ctx.
Cancel ==
    /\ ~ctxDone
    /\ ctxDone' = TRUE
    /\ UNCHANGED <<serverVars, backendVars, reqVars, bpc, spc, rpc, runDone, lnCloses,
                   serveErr, runErr, lbAtExit, histVars>>

\* The select waiting for runDone alone.
closerWakes_OnlyRunDone == runDone

\* Run lines 351-354: the select on ctx.Done() and runDone has a ready case.
closerWakes == ctxDone \/ runDone

\* Run lines 350-356: the goroutine that closes the listener once ctx is
\* done or Run has returned.
ListenerClose ==
    /\ rpc # "init"
    /\ lnCloses = 0
    /\ closerWakes
    /\ lnCloses' = lnCloses + 1
    /\ UNCHANGED <<serverVars, backendVars, reqVars, bpc, spc, rpc, ctxDone, runDone,
                   serveErr, runErr, lbAtExit, histVars>>

\* Errors hs.Serve returns: the listener was closed, or accepting failed.
ServeErrs == {"closed", "transport"}

\* Run line 381: hs.Serve(ln) returns e.
ServeReturn(e) ==
    /\ rpc = "serve"
    /\ e = "closed" => lnCloses > 0
    /\ serveErr' = e
    /\ rpc' = "serveRet"
    /\ UNCHANGED <<serverVars, backendVars, reqVars, bpc, spc, ctxDone, runDone, lnCloses,
                   runErr, lbAtExit, histVars>>

\* Run lines 381-386: the error Run returns, from Serve's error and ctx.Err().
runResult(err, cancelled) ==
    IF err # "nil"
    THEN IF cancelled THEN "canceled" ELSE "nil"
    ELSE "nil"

\* Run lines 381-386: the return value is fixed.
RunReturn ==
    /\ rpc = "serveRet"
    /\ runErr' = runResult(serveErr, ctxDone)
    /\ rpc' = "runDone"
    /\ UNCHANGED <<serverVars, backendVars, reqVars, bpc, spc, ctxDone, runDone, lnCloses,
                   serveErr, lbAtExit, histVars>>

\* Run line 346: deferred close(runDone).
CloseRunDone ==
    /\ rpc = "runDone"
    /\ runDone' = TRUE
    /\ rpc' = "shutdown"
    /\ UNCHANGED <<serverVars, backendVars, reqVars, bpc, spc, ctxDone, lnCloses,
                   serveErr, runErr, lbAtExit, histVars>>

\* The deferred function with its nil test inverted.
shutsDown_Inverted(loaded) == loaded = NilBackend

\* Run lines 339-343: whether the deferred function calls Shutdown on the
\* backend it loads at exit.
shutsDown(loaded) == loaded # NilBackend

\* Run lines 339-343: the deferred load and Shutdown.
DeferShutdown ==
    /\ rpc = "shutdown"
    /\ lbAtExit' = lb
    /\ shutdownCalls' = IF shutsDown(lb) THEN shutdownCalls + 1 ELSE shutdownCalls
    /\ rpc' = "done"
    /\ UNCHANGED <<serverVars, lbCurrentUserID, lbDenied, inServerMode, prefsValid,
                   operatorUID, setUserCalls, identResets, idleResets, startCalls,
                   startAfterShutdown, reqVars, bpc, spc, ctxDone, runDone, lnCloses,
                   serveErr, runErr, histVars>>

LifeNext ==
    \/ \E b \in Binders : \E arg \in {NilBackend, b} : SetLocalBackend(b, arg)
    \/ \E t \in LifeThreads : SbiLoadRunCalled(t)
    \/ \E t \in LifeThreads : SbiLoadBackend(t)
    \/ \E t \in LifeThreads : SbiStart(t)
    \/ RunStart
    \/ Cancel
    \/ ListenerClose
    \/ \E e \in ServeErrs : ServeReturn(e)
    \/ RunReturn
    \/ CloseRunDone
    \/ DeferShutdown

\* ---------------------------------------------------- specifications
\* New (lines 287-293) on any platform, with any backend to be bound.
Init ==
    /\ goos \in GOOSes
    /\ permitCertUID \in CertConfigs
    /\ resetOnZero = (goos = "windows")
    /\ lb = NilBackend
    /\ runCalled = FALSE
    /\ startBackendOnce = FALSE
    /\ mu = Unlocked
    /\ lastUserID = NoUser
    /\ activeReqs = <<>>
    /\ lbCurrentUserID = NoUser
    /\ lbDenied \in {{}} \cup {{u} : u \in Users}
    /\ inServerMode \in BOOLEAN
    /\ prefsValid \in BOOLEAN
    /\ operatorUID \in {NoUser} \cup Users
    /\ setUserCalls = 0
    /\ identResets = 0
    /\ idleResets = 0
    /\ startCalls = 0
    /\ shutdownCalls = 0
    /\ startAfterShutdown = FALSE
    /\ pc = [r \in Reqs |-> "idle"]
    /\ ci = [r \in Reqs |-> NoIdentity]
    /\ doReset = [r \in Reqs |-> FALSE]
    /\ remain = [r \in Reqs |-> 0]
    /\ lastResp = "none"
    /\ lastPerm = NoPerm
    /\ bpc = [b \in Binders |-> "init"]
    /\ barg = [b \in Binders |-> NilBackend]
    /\ spc = [t \in LifeThreads |-> "none"]
    /\ rpc = "init"
    /\ ctxDone = FALSE
    /\ runDone = FALSE
    /\ lnCloses = 0
    /\ serveErr = "nil"
    /\ runErr = "none"
    /\ lbAtExit = NilBackend
    /\ userSwitches = 0
    /\ idleTransitions = 0

Next == RequestNext \/ LifeNext

Spec == Init /\ [][Next]_vars

\* The session tracker alone: the Server after New, SetLocalBackend by the
\* first binder and Run up to hs.Serve, with the backend started.
InitSession ==
    /\ goos \in {"windows", "linux"}
    /\ permitCertUID = NoString
    /\ resetOnZero = (goos = "windows")
    /\ lb = 1
    /\ runCalled = TRUE
    /\ startBackendOnce = TRUE
    /\ mu = Unlocked
    /\ lastUserID = NoUser
    /\ activeReqs = <<>>
    /\ lbCurrentUserID = NoUser
    /\ lbDenied \in IF goos = "windows" THEN {{}, {NUser}} ELSE {{}}
    /\ inServerMode \in BOOLEAN
    /\ prefsValid = TRUE
    /\ operatorUID = NoUser
    /\ setUserCalls = 0
    /\ identResets = 0
    /\ idleResets = 0
    /\ startCalls = 1
    /\ shutdownCalls = 0
    /\ startAfterShutdown = FALSE
    /\ pc = [r \in Reqs |-> "idle"]
    /\ ci = [r \in Reqs |-> NoIdentity]
    /\ doReset = [r \in Reqs |-> FALSE]
    /\ remain = [r \in Reqs |-> 0]
    /\ lastResp = "none"
    /\ lastPerm = NoPerm
    /\ bpc = [b \in Binders |-> IF b = 1 THEN "done" ELSE "init"]
    /\ barg = [b \in Binders |-> IF b = 1 THEN 1 ELSE NilBackend]
    /\ spc = [t \in LifeThreads |-> "none"]
    /\ rpc = "serve"
    /\ ctxDone = FALSE
    /\ runDone = FALSE
    /\ lnCloses = 0
    /\ serveErr = "nil"
    /\ runErr = "none"
    /\ lbAtExit = NilBackend
    /\ userSwitches = 0
    /\ idleTransitions = 0

SpecSession == InitSession /\ [][RequestNext]_vars

\* The lifecycle alone: no request is served.
InitLife ==
    /\ Init
    /\ goos = "windows"
    /\ permitCertUID = NoString
    /\ lbDenied = {}
    /\ inServerMode = FALSE
    /\ operatorUID = NoUser

SpecLife == InitLife /\ [][LifeNext]_vars

\* The requests served next to Run, and the requests that race with the
\* binders and Run.
NServe == 2

ServeReqs == 1..NServe

NRace == 1

RaceReqs == 1..NRace

\* The one client of the requests served next to the binders and Run.
ServeIdentity(os) == IF os = "windows" THEN PipeIdentity(1) ELSE CredIdentity(TRUE, 1)

\* Requests of one user served while SetLocalBackend and Run are called,
\* on the pipe platform and on a domain-socket platform, with valid prefs.
InitServe ==
    /\ Init
    /\ goos \in {"windows", "linux"}
    /\ permitCertUID = NoString
    /\ lbDenied = {}
    /\ inServerMode = FALSE
    /\ operatorUID = NoUser
    /\ prefsValid

ServeNext ==
    \/ \E r \in RaceReqs :
          \/ \E m \in Methods, v \in CtxValues : Arrive(r, m, v, ServeIdentity(goos))
          \/ Register(r)
          \/ DeferReset(r)
          \/ Permissions(r)
          \/ DoneLock(r)
          \/ DoneDelete(r)
          \/ DoneReset(r)
          \/ ResetReturn(r)
    \/ LifeNext

SpecServe == InitServe /\ [][ServeNext]_vars

\* Run and its requests alone: the first binder has bound its backend
\* before Run is called, and no other SetLocalBackend is made.
InitRun ==
    /\ goos = "windows"
    /\ permitCertUID = NoString
    /\ resetOnZero = TRUE
    /\ lb = 1
    /\ runCalled = FALSE
    /\ startBackendOnce = FALSE
    /\ mu = Unlocked
    /\ lastUserID = NoUser
    /\ activeReqs = <<>>
    /\ lbCurrentUserID = NoUser
    /\ lbDenied = {}
    /\ inServerMode = FALSE
    /\ prefsValid = TRUE
    /\ operatorUID = NoUser
    /\ setUserCalls = 0
    /\ identResets = 0
    /\ idleResets = 0
    /\ startCalls = 0
    /\ shutdownCalls = 0
    /\ startAfterShutdown = FALSE
    /\ pc = [r \in Reqs |-> "idle"]
    /\ ci = [r \in Reqs |-> NoIdentity]
    /\ doReset = [r \in Reqs |-> FALSE]
    /\ remain = [r \in Reqs |-> 0]
    /\ lastResp = "none"
    /\ lastPerm = NoPerm
    /\ bpc = [b \in Binders |-> IF b = 1 THEN "done" ELSE "init"]
    /\ barg = [b \in Binders |-> IF b = 1 THEN 1 ELSE NilBackend]
    /\ spc = [t \in LifeThreads |-> "none"]
    /\ rpc = "init"
    /\ ctxDone = FALSE
    /\ runDone = FALSE
    /\ lnCloses = 0
    /\ serveErr = "nil"
    /\ runErr = "none"
    /\ lbAtExit = NilBackend
    /\ userSwitches = 0
    /\ idleTransitions = 0

RunSteps ==
    \/ SbiLoadRunCalled(RunThread)
    \/ SbiLoadBackend(RunThread)
    \/ SbiStart(RunThread)
    \/ RunStart
    \/ Cancel
    \/ ListenerClose
    \/ \E e \in ServeErrs : ServeReturn(e)
    \/ RunReturn
    \/ CloseRunDone
    \/ DeferShutdown

RunNext == (\E r \in RaceReqs : RequestStep(r)) \/ RunSteps

\* The backend's connection policy changes (its prefs or its owner are
\* changed): from now on CheckIPNConnectionAllowed rejects the users in d.
PolicyChange(d) ==
    /\ lbDenied # d
    /\ lbDenied' = d
    /\ UNCHANGED <<serverVars, lbCurrentUserID, inServerMode, prefsValid, operatorUID,
                   setUserCalls, identResets, idleResets, startCalls, shutdownCalls,
                   startAfterShutdown, reqVars, lifeVars, histVars>>

\* The permission calculator: on any platform, with any operator id and
\* any TS_PERMIT_CERT_UID, requests of every identity of the platform are
\* registered and given their permissions while the backend's policy
\* changes.
InitPerm ==
    /\ goos \in GOOSes
    /\ permitCertUID \in CertConfigs
    /\ resetOnZero = (goos = "windows")
    /\ lb = 1
    /\ runCalled = TRUE
    /\ startBackendOnce = TRUE
    /\ mu = Unlocked
    /\ lastUserID = NoUser
    /\ activeReqs = <<>>
    /\ lbCurrentUserID = NoUser
    /\ lbDenied = {}
    /\ inServerMode = FALSE
    /\ prefsValid = TRUE
    /\ operatorUID \in IF goos = "linux" THEN {NoUser, 1000} ELSE {NoUser}
    /\ setUserCalls = 0
    /\ identResets = 0
    /\ idleResets = 0
    /\ startCalls = 1
    /\ shutdownCalls = 0
    /\ startAfterShutdown = FALSE
    /\ pc = [r \in Reqs |-> "idle"]
    /\ ci = [r \in Reqs |-> NoIdentity]
    /\ doReset = [r \in Reqs |-> FALSE]
    /\ remain = [r \in Reqs |-> 0]
    /\ lastResp = "none"
    /\ lastPerm = NoPerm
    /\ bpc = [b \in Binders |-> IF b = 1 THEN "done" ELSE "init"]
    /\ barg = [b \in Binders |-> IF b = 1 THEN 1 ELSE NilBackend]
    /\ spc = [t \in LifeThreads |-> "none"]
    /\ rpc = "serve"
    /\ ctxDone = FALSE
    /\ runDone = FALSE
    /\ lnCloses = 0
    /\ serveErr = "nil"
    /\ runErr = "none"
    /\ lbAtExit = NilBackend
    /\ userSwitches = 0
    /\ idleTransitions = 0

PermNext ==
    \/ \E r \in ServeReqs :
          \/ \E m \in Methods, id \in PermIdentities(goos) : Arrive(r, m, "identity", id)
          \/ Register(r)
          \/ DeferReset(r)
          \/ Permissions(r)
          \/ DoneLock(r)
          \/ DoneDelete(r)
          \/ DoneReset(r)
          \/ ResetReturn(r)
    \/ \E d \in {{}} \cup {{u} : u \in Users} : goos = "windows" /\ PolicyChange(d)

SpecPerm == InitPerm /\ [][PermNext]_vars

\* The goroutines of Run are scheduled: the listener closer closes once its
\* select is ready, Serve returns once its listener is closed, and Run's own
\* steps and deferred functions run.
RunFairness ==
    /\ WF_vars(ListenerClose)
    /\ WF_vars(ServeReturn("closed"))
    /\ WF_vars(SbiLoadRunCalled(RunThread))
    /\ WF_vars(SbiLoadBackend(RunThread))
    /\ WF_vars(SbiStart(RunThread))
    /\ WF_vars(RunReturn)
    /\ WF_vars(CloseRunDone)
    /\ WF_vars(DeferShutdown)

SpecRun == InitRun /\ [][RunNext]_vars /\ RunFairness


\* ------------------------------------------------------------ claims
ActiveUsers == {WindowsUserID(goos, activeReqs[a]) : a \in DOMAIN activeReqs}

PendingIdentResets == Cardinality({r \in Reqs : pc[r] = "deferReset" /\ doReset[r]})

PendingIdleResets == Cardinality({r \in Reqs : pc[r] = "doneCheck" /\ remain[r] = 0})

Resets == identResets + idleResets

Quiet == \A r \in Reqs : pc[r] \in {"idle", "finished"}

\* C1: on the pipe platform all entries of the active-request map carry the
\* same resolved user id, in every reachable state.
C1_SingleActiveUser ==
    goos = "windows" =>
        \A a, b \in DOMAIN activeReqs : activeReqs[a].userID = activeReqs[b].userID

\* Two requests of one user are active and a request of another user has
\* been turned away.
C1_Witness ==
    /\ goos = "windows"
    /\ Cardinality(DOMAIN activeReqs) >= 2
    /\ lastResp = "inUse"

\* C2: a request of a user other than the active one is rejected with the
\* in-use error; a rejection changes neither the map nor lastUserID and calls
\* neither SetCurrentUserID nor a reset; a request that meets no other active
\* user and that the backend permits is admitted.
C2_RejectOtherUser ==
    [][\A r \in Reqs :
          (pc[r] = "locked" /\ pc'[r] # "locked") =>
              LET uid == WindowsUserID(goos, ci[r])
              IN  /\ (\E u \in ActiveUsers : u # uid) =>
                        pc'[r] = "finished" /\ lastResp' = "inUse"
                  /\ pc'[r] = "finished" =>
                        UNCHANGED <<activeReqs, lastUserID, lbCurrentUserID, setUserCalls,
                                    identResets, idleResets>>
                  /\ (ActiveUsers \subseteq {uid} /\ CheckIPNConnectionAllowed(goos, ci[r])) =>
                        pc'[r] = "deferReset" /\ r \in DOMAIN activeReqs'
      ]_vars

\* A second user has been rejected while the first was active and has been
\* admitted after the first user's last request left the map.
C2_Witness ==
    /\ goos = "windows"
    /\ lastResp = "inUse"
    /\ userSwitches = 1
    /\ \E r \in DOMAIN activeReqs : activeReqs[r].userID = lastUserID

\* C3: every observed change of lastUserID from a non-empty id to another id
\* causes exactly one identity-change reset, made by the request that
\* observed it while it is registered and before it reaches its handler.
C3_OneResetPerSwitch ==
    /\ identResets + PendingIdentResets = userSwitches
    /\ \A r \in Reqs : pc[r] = "deferReset" => r \in DOMAIN activeReqs
    /\ \A r \in Reqs : doReset[r] => pc[r] \in {"deferReset", "identReset", "app",
                                                "doneLocked", "doneCheck", "idleReset"}

\* After a switch two requests of the new user are active and one reset
\* has been made.
C3_Witness ==
    /\ userSwitches = 1
    /\ identResets = 1
    /\ Cardinality(DOMAIN activeReqs) >= 2
    /\ \A r \in DOMAIN activeReqs : pc[r] = "app"

\* C4: every transition of the active-request map to empty causes exactly
\* one idle reset when reset-on-idle is enabled and the backend is not in
\* server mode, and none otherwise; no other onDone resets.
C4_IdleReset ==
    IF resetOnZero /\ ~inServerMode
    THEN idleResets + PendingIdleResets = idleTransitions
    ELSE idleResets = 0

\* The map has become empty twice and two idle resets have been made.
C4_Witness ==
    /\ resetOnZero
    /\ ~inServerMode
    /\ idleTransitions = 2
    /\ idleResets = 2
    /\ Quiet

\* C5 as stated: in scenario C (B turned away while A was active, A's
\* request completed, B not yet active) no reset has occurred.
C5_AsStated ==
    (goos = "windows" /\ lastResp = "inUse" /\ userSwitches = 0 /\ Quiet) => Resets = 0

\* C5, amended: B is rejected with the in-use error while A is active and
\* that rejection resets nothing; an identity-change reset is made only by a
\* registered request of the user who has become the active one; the
\* completion of A's request makes no identity-change reset, and makes the
\* idle reset exactly when it empties the map and the backend is not in
\* server mode.
C5_ScenarioC ==
    [][goos = "windows" =>
          /\ \A r \in Reqs :
                (pc[r] = "locked" /\ pc'[r] # "locked"
                    /\ \E u \in ActiveUsers : u # ci[r].userID) =>
                        lastResp' = "inUse" /\ pc'[r] = "finished" /\ Resets' = Resets
          /\ identResets' # identResets =>
                \E r \in DOMAIN activeReqs :
                    /\ pc[r] = "deferReset" /\ pc'[r] = "identReset"
                    /\ activeReqs[r].userID = lastUserID
                    /\ userSwitches > 0
          /\ idleResets' # idleResets =>
                /\ ~inServerMode
                /\ idleResets < idleTransitions
                /\ \E r \in Reqs : pc[r] = "doneCheck" /\ remain[r] = 0 /\ pc'[r] = "idleReset"
      ]_vars

\* In server mode: B was turned away, A completed without a reset, and the
\* one reset was made when B became the active user.
C5_Witness ==
    /\ goos = "windows"
    /\ inServerMode
    /\ lastResp = "inUse"
    /\ userSwitches = 1
    /\ Resets = 1
    /\ \E r \in DOMAIN activeReqs : pc[r] = "app"

\* The second of two sequential sessions of one user is being served.
SecondSessionSameUser ==
    /\ goos = "windows"
    /\ setUserCalls = 2
    /\ userSwitches = 0
    /\ \E r \in DOMAIN activeReqs :
          /\ pc[r] = "app"
          /\ \A q \in Reqs \ {r} : pc[q] \in {"idle", "finished"}

\* C6 as stated: in scenario B no backend reset has been called.
C6_AsStated == SecondSessionSameUser => Resets = 0

\* C6, amended: a request of the user recorded in lastUserID that meets an
\* empty map and that the backend permits is admitted without an
\* identity-change reset, and the permissions computed on the pipe platform
\* for an admitted request are read and write; the idle reset of the first
\* session is still made when the backend is not in server mode.
C6_ScenarioB ==
    [][goos = "windows" =>
          /\ \A r \in Reqs :
                (pc[r] = "locked" /\ pc'[r] # "locked" /\ DOMAIN activeReqs = {}
                    /\ ci[r].userID = lastUserID
                    /\ CheckIPNConnectionAllowed(goos, ci[r])) =>
                        /\ r \in DOMAIN activeReqs'
                        /\ ~doReset'[r]
                        /\ Resets' = Resets
          /\ lastPerm' # NoPerm => (lastPerm'[1] /\ lastPerm'[2])
          /\ (SecondSessionSameUser' /\ ~inServerMode) => idleResets' + PendingIdleResets' = 1
          /\ SecondSessionSameUser' => identResets' = 0
      ]_vars

\* The second session of the same user is being served with read and write
\* granted and no identity-change reset.
C6_Witness ==
    /\ SecondSessionSameUser
    /\ lastPerm # NoPerm
    /\ lastPerm[1]
    /\ lastPerm[2]
    /\ identResets = 0
    /\ idleResets = 1

Bound == {b \in Binders : bpc[b] \in {"sbi", "done"}}

\* C7: at most one SetLocalBackend call binds; every other call, and every
\* call with a nil backend, panics; the reference holds the backend of the
\* call that bound and never changes again.
C7_BindOnce ==
    /\ Cardinality(Bound) <= 1
    /\ \A b \in Bound : lb = b
    /\ lb # NilBackend => lb \in Bound
    /\ \A b \in Binders :
          /\ bpc[b] = "panicAlreadySet" => (Bound # {} /\ b \notin Bound /\ barg[b] # NilBackend)
          /\ (bpc[b] # "init" /\ barg[b] = NilBackend) => bpc[b] = "panicNil"
          /\ bpc[b] # "init" => (b \in Bound \/ bpc[b] \in {"panicNil", "panicAlreadySet"})

\* One call has bound, a later one has panicked, and the reference holds
\* the first backend; Run has started.
C7_Witness ==
    /\ \E b1, b2 \in Binders :
          bpc[b1] = "done" /\ bpc[b2] = "panicAlreadySet" /\ lb = b1
    /\ runCalled

\* C8: Start is called at most once, only with the backend bound, Run begun
\* and valid prefs, and it has been called once both start-if-ready checks
\* are over with valid prefs.
C8_StartOnce ==
    /\ startCalls <= 1
    /\ startCalls = 1 => (lb # NilBackend /\ runCalled /\ prefsValid)
    /\ (prefsValid /\ \E b \in Binders : bpc[b] = "done"
           /\ rpc \notin {"init", "sbi"}) => startCalls = 1

\* Both checks are over and the backend has been started once.
C8_Witness ==
    /\ startCalls = 1
    /\ \E b \in Binders : bpc[b] = "done"
    /\ rpc = "serve"
    /\ \A t \in LifeThreads : spc[t] = "none"

\* C9: Shutdown is called only by Run's exit, and when Run has exited it has
\* been called exactly once on the backend bound by then, whatever Serve
\* returned and whether or not the context was cancelled.
C9_ShutdownOnce ==
    /\ shutdownCalls <= 1
    /\ rpc # "done" => shutdownCalls = 0
    /\ (rpc = "done" /\ lbAtExit # NilBackend) => shutdownCalls = 1
    /\ (rpc = "done" /\ lbAtExit = NilBackend) => shutdownCalls = 0

\* Run has exited after a Serve error without cancellation, with a backend
\* that had been bound and started, and has shut it down once.
C9_Witness ==
    /\ rpc = "done"
    /\ serveErr = "transport"
    /\ ~ctxDone
    /\ startCalls = 1
    /\ shutdownCalls = 1

\* C10: once Run has fixed its result, a Serve error met while the context
\* is not cancelled is returned as a non-nil error, and an error met after
\* cancellation is not returned as the transport error.
C10_ErrorPropagated ==
    /\ (runErr # "none" /\ serveErr # "nil" /\ ~ctxDone) => runErr # "nil"
    /\ (runErr # "none" /\ serveErr # "nil" /\ runErr # "nil") => ctxDone


\* ---------------------------------------------------------------------
\* C11: once the context is cancelled (and Run was called) the listener is
\* eventually closed and Run eventually returns; the listener is also
\* closed once Run has returned for any other reason; Run's closer
\* goroutine closes it at most once; the cancellation step changes neither
\* the active-request map nor any request's position, and an entry leaves
\* the map only in the onDone of its own request.
RunCancelled == ctxDone /\ rpc # "init"

C11_CancelHaltsAccepts ==
    /\ [](lnCloses <= 1)
    /\ RunCancelled ~> (lnCloses = 1)
    /\ RunCancelled ~> (rpc = "done")
    /\ runDone ~> (lnCloses = 1)
    /\ [][(ctxDone' # ctxDone) => UNCHANGED <<activeReqs, lastUserID, pc>>]_vars
    /\ [][\A r \in DOMAIN activeReqs :
            r \notin DOMAIN activeReqs' => pc[r] = "doneLocked"]_vars

C11_Witness ==
    /\ ctxDone
    /\ lnCloses = 1
    /\ rpc = "done"
    /\ \E r \in DOMAIN activeReqs : pc[r] = "app"

\* ---------------------------------------------------------------------
\* C12: no backend reset call, identity-change or idle, executes while the
\* calling request's goroutine holds s.mu; the decision (doReset, the
\* remaining count) is written while that goroutine holds s.mu, and the
\* goroutine that is about to run a reset has released it.
ResetPending(r) ==
    \/ pc[r] = "deferReset" /\ doReset[r]
    \/ pc[r] = "doneCheck" /\ idleReset(remain[r])

C12_ResetAfterUnlock ==
    /\ [][\A r \in Reqs :
            (pc'[r] # pc[r] /\ (identResets' # identResets \/ idleResets' # idleResets))
                => (mu # r /\ ResetPending(r))]_vars
    /\ [][\A r \in Reqs :
            ((doReset'[r] /\ ~doReset[r]) \/ (pc'[r] = "doneCheck" /\ pc[r] # "doneCheck"))
                => (mu = r /\ mu' # r)]_vars
    /\ [](\A r \in Reqs : pc[r] \in {"deferReset", "doneCheck"} \cup ResetPcs => mu # r)

C12_Witness ==
    /\ idleResets >= 1
    /\ \E r \in Reqs : pc[r] = "deferReset" /\ doReset[r] /\ mu \notin {r, Unlocked}

\* ---------------------------------------------------------------------
\* C13: the active-request map and lastUserID change only in a step of the
\* goroutine that holds s.mu; no goroutine takes s.mu while it is inside a
\* backend call that holds the backend's lock, so a goroutine that holds
\* both took s.mu first; and no reachable state is a deadlock: while a
\* request is in flight some request can step, and the holder of s.mu can
\* step or waits for a backend reset that can return.
InFlight == {r \in Reqs : pc[r] \notin {"idle", "finished", "panic"}}

Progress ==
    \E r \in Reqs : \/ Register(r)
                    \/ DeferReset(r)
                    \/ DoneLock(r)
                    \/ DoneDelete(r)
                    \/ DoneReset(r)
                    \/ ResetReturn(r)

HolderProgress ==
    \/ ENABLED (\E r \in Reqs : mu = r /\ (Register(r) \/ DoneDelete(r)))
    \/ backendLocked /\ ENABLED (\E r \in Reqs : ResetReturn(r))

C13_LockDiscipline ==
    /\ [][(activeReqs' # activeReqs \/ lastUserID' # lastUserID) =>
            (mu \in Reqs /\ pc'[mu] # pc[mu])]_vars
    /\ [][\A r \in Reqs : (mu' = r /\ mu # r) =>
            (pc[r] \notin ResetPcs /\ pc'[r] \notin ResetPcs)]_vars
    /\ [](InFlight # {} => ENABLED Progress)
    /\ [](mu \in Reqs => HolderProgress)

\* A goroutine holds s.mu and waits, in checkConnIdentityLocked, for the
\* backend's lock, which a reset of another request holds.
C13_Witness ==
    /\ \E r \in Reqs : pc[r] = "locked" /\ mu = r /\ ~ENABLED Register(r)
    /\ backendLocked
    /\ DOMAIN activeReqs # {}

\* ---------------------------------------------------------------------
\* C14: on the pipe platform the permissions computed for an identity have
\* read equal to write, both true exactly when the single-user check passes
\* in the state of the evaluation (every active request is of the
\* identity's user and the backend permits it); on the browser platform
\* read and write are true; on both the certificate permission is false,
\* for every identity and every TS_PERMIT_CERT_UID.  The last part fails
\* under GOOS js for a domain-socket connection whose credential is the
\* uid TS_PERMIT_CERT_UID names: connCanFetchCerts does not look at GOOS.
SingleUserCheckPasses(id) ==
    /\ \A a \in DOMAIN activeReqs : activeReqs[a].userID = id.userID
    /\ id.userID \notin lbDenied

C14_PipeAndBrowserPermissions ==
    [][(lastPerm' # lastPerm /\ goos \in {"windows", "js"}) =>
          /\ lastPerm'[1] = lastPerm'[2]
          /\ goos = "windows" => (lastPerm'[1] <=> SingleUserCheckPasses(lastPerm'[4]))
          /\ goos = "js" => lastPerm'[1]
          /\ ~lastPerm'[3]
      ]_vars

\* ---------------------------------------------------------------------
\* C15: on a domain-socket platform read is granted exactly to domain-socket
\* connections; write is granted exactly when, in addition, the credential
\* carries a user id and that id is not the operator id.  Scenario A: a
\* domain-socket connection with credential uid 1000 and operator id 1000
\* gets read without write, and no certificate permission unless
\* TS_PERMIT_CERT_UID names that uid.
ScenarioA(id) == id = CredIdentity(TRUE, 1000) /\ operatorUID = 1000

C15_SocketPermissions ==
    [][(lastPerm' # lastPerm /\ goos = "linux") =>
          LET id == lastPerm'[4]
          IN  /\ lastPerm'[1] <=> id.isUnixSock
              /\ lastPerm'[2] <=> /\ id.isUnixSock
                                  /\ id.creds \notin {NoCreds, AnonCreds}
                                  /\ id.creds # operatorUID
              /\ ScenarioA(id) => (lastPerm'[1] /\ ~lastPerm'[2])
              /\ (ScenarioA(id) /\ userIDFromString(permitCertUID) # Itoa(1000))
                    => ~lastPerm'[3]
      ]_vars

\* Scenario A has been evaluated with TS_PERMIT_CERT_UID unset.
C15_Witness ==
    /\ goos = "linux"
    /\ operatorUID = 1000
    /\ permitCertUID = NoString
    /\ lastPerm = <<TRUE, FALSE, FALSE, CredIdentity(TRUE, 1000)>>

\* ---------------------------------------------------------------------
\* C16: the certificate permission is granted exactly when the connection
\* is a domain socket, carries a credential with a user id, and that id in
\* string form equals TS_PERMIT_CERT_UID resolved: a value of digits is
\* compared as it is written, a user name stands for its account's id; an
\* unset value, a name of no account and a string that is neither never
\* match.
CertUIDGranted ==
    IF permitCertUID \in {Itoa(1000), UserName(1000)} THEN {1000}
    ELSE IF permitCertUID = Itoa(1001) THEN {1001}
    ELSE {}

C16_CertFetch ==
    [][lastPerm' # lastPerm =>
          LET id == lastPerm'[4]
          IN  lastPerm'[3] <=> (id.isUnixSock /\ id.creds \in CertUIDGranted)
      ]_vars

\* TS_PERMIT_CERT_UID names an account by its user name and a connection
\* of that account has been granted the certificate permission.
C16_Witness ==
    /\ permitCertUID = UserName(1000)
    /\ lastPerm # NoPerm
    /\ lastPerm[3]
    /\ lastPerm[4] = CredIdentity(TRUE, 1000)

\* ---------------------------------------------------------------------
\* Two requests of identity id are being served: each has its permissions
\* computed once.
TwoServed(id) ==
    \E r, q \in DOMAIN activeReqs :
        r # q /\ pc[r] = "app" /\ pc[q] = "app" /\ ci[r] = id /\ ci[q] = id

\* C17 as stated: the evaluations for two requests of the same identity
\* (the platform, the operator id and TS_PERMIT_CERT_UID being fixed) give
\* the same permissions, whatever the active requests and the backend's
\* policy are at each evaluation.
C17_AsStated ==
    [][(lastPerm # NoPerm /\ lastPerm' # NoPerm /\ lastPerm'[4] = lastPerm[4]
            /\ TwoServed(lastPerm[4]))
          => lastPerm' = lastPerm]_vars

\* The permissions as a function of platform, identity, operator id and
\* TS_PERMIT_CERT_UID alone, off the pipe platform.
PurePermissions(os, id, op) ==
    <<os = "js" \/ id.isUnixSock,
      os = "js" \/ (id.isUnixSock /\ id.creds \notin {NoCreds, AnonCreds} /\ id.creds # op),
      id.isUnixSock /\ id.creds \in CertUIDGranted,
      id>>

\* C17, amended: off the pipe platform every evaluation gives the value of
\* one function of (platform, identity, operator id, TS_PERMIT_CERT_UID); on
\* the pipe platform the certificate permission is that of the function
\* and read and write are those of the backend's policy at the time of the
\* evaluation, whatever the active requests and lastUserID are.
C17_PureOffPipe ==
    [][lastPerm' # lastPerm =>
          LET id == lastPerm'[4]
          IN  /\ goos # "windows" => lastPerm' = PurePermissions(goos, id, operatorUID)
              /\ goos = "windows" =>
                    /\ lastPerm'[3] = FALSE
                    /\ lastPerm'[1] = (id.userID \notin lbDenied)
                    /\ lastPerm'[2] = lastPerm'[1]
      ]_vars

\* Two requests of one identity are being served on a domain-socket
\* platform and permissions have been computed for that identity.
C17_Witness ==
    /\ goos = "linux"
    /\ lastPerm # NoPerm
    /\ lastPerm[2]
    /\ lastPerm[3]
    /\ TwoServed(lastPerm[4])

\* ---------------------------------------------------------------------
\* C18, as stated: every request that arrives before the bind is answered
\* service-unavailable, every request whose identity resolution failed
\* unauthorized, every request with no identity value internal-error; a
\* request goes on to registration only when the backend is bound and its
\* connection carries an identity, and no request reaches the fatal
\* mustBackend fault.
C18_AsStated ==
    /\ [][\A r \in Reqs : (pc[r] = "idle" /\ pc'[r] # "idle") =>
            /\ pc'[r] \in {"locked", "finished"}
            /\ pc'[r] = "locked" <=> (lb # NilBackend /\ ci'[r] # NoIdentity)
            /\ lb = NilBackend => lastResp' = "unavailable"
            /\ (\E m \in Methods, id \in ConnIdentities(goos) :
                    Arrive(r, m, "error", id) /\ lb # NilBackend)
                  => lastResp' = "unauthorized"
            /\ (\E m \in Methods, id \in ConnIdentities(goos) :
                    Arrive(r, m, "nil", id) /\ lb # NilBackend)
                  => lastResp' = "internal"
            /\ pc'[r] = "finished" =>
                  /\ lastResp' \in {"unavailable", "unauthorized", "internal"}
                  /\ UNCHANGED <<activeReqs, lastUserID, mu, backendVars>>
         ]_vars
    /\ [][lb # NilBackend => lb' = lb]_vars
    /\ [](\A r \in Reqs : pc[r] # "panic")
    /\ [](\A r \in DOMAIN activeReqs : lb # NilBackend /\ activeReqs[r] # NoIdentity)

\* The step in which request r arrives with the given method.
Arrives(r, method) ==
    \E v \in CtxValues, id \in ConnIdentities(goos) : Arrive(r, method, v, id)

\* C18: a request goes on to registration only when it is not a CONNECT, the
\* backend is bound and its connection carries an identity.  A request other
\* than a CONNECT that arrives before the bind is answered
\* service-unavailable, one whose identity resolution failed unauthorized,
\* one with no identity value internal-error.  A CONNECT request is answered
\* method-not-allowed off the pipe platform and gets no answer from
\* serveHTTP on it, bound backend or not.  Each of these leaves the
\* active-request map, lastUserID and the backend as they were; a bound
\* backend stays bound, so no request reaches the fatal mustBackend fault
\* however SetLocalBackend and Run interleave with it.
C18_RegisteredOnlyWhenBound ==
    /\ [][\A r \in Reqs : (pc[r] = "idle" /\ pc'[r] # "idle") =>
            /\ Arrives(r, "GET") \/ Arrives(r, "CONNECT")
            /\ pc'[r] \in {"locked", "finished"}
            /\ pc'[r] = "locked" <=>
                  (Arrives(r, "GET") /\ lb # NilBackend /\ ci'[r] # NoIdentity)
            /\ Arrives(r, "CONNECT") =>
                  /\ pc'[r] = "finished"
                  /\ lastResp' = IF goos = "windows" THEN lastResp ELSE "badMethod"
            /\ Arrives(r, "GET") =>
                  /\ lb = NilBackend => lastResp' = "unavailable"
                  /\ (\E id \in ConnIdentities(goos) :
                          Arrive(r, "GET", "error", id) /\ lb # NilBackend)
                        => lastResp' = "unauthorized"
                  /\ (\E id \in ConnIdentities(goos) :
                          Arrive(r, "GET", "nil", id) /\ lb # NilBackend)
                        => lastResp' = "internal"
                  /\ pc'[r] = "finished" =>
                        lastResp' \in {"unavailable", "unauthorized", "internal"}
            /\ pc'[r] = "finished" =>
                  UNCHANGED <<activeReqs, lastUserID, mu, backendVars>>
         ]_vars
    /\ [][lb # NilBackend => lb' = lb]_vars
    /\ [](\A r \in Reqs : pc[r] # "panic")
    /\ [](\A r \in DOMAIN activeReqs : lb # NilBackend /\ activeReqs[r] # NoIdentity)

\* A request that arrived before the bind was answered service-unavailable;
\* the backend has been bound since and nothing was registered.
C18_Witness ==
    /\ lastResp = "unavailable"
    /\ lb # NilBackend
    /\ activeReqs = <<>>
    /\ setUserCalls = 0
    /\ \E r \in Reqs : pc[r] = "finished"

\* ---------------------------------------------------------------------
\* C19: a reset is executed in the state it was decided in: when the idle
\* reset of onDone is called the active-request map is empty, and when the
\* identity-change reset of a request is called no other request of the
\* new user has been registered and reached its handler.
C19_ResetInDecidedState ==
    [][/\ idleResets' # idleResets => DOMAIN activeReqs = {}
       /\ identResets' # identResets =>
             \A r \in Reqs : (pc[r] = "deferReset" /\ pc'[r] = "identReset") =>
                 ~\E q \in DOMAIN activeReqs \ {r} :
                     pc[q] \in {"app", "doneLocked"} /\ ci[q].userID = ci[r].userID
      ]_vars

\* ---------------------------------------------------------------------
\* C20: however SetLocalBackend interleaves with Run, backend Start is not
\* invoked after backend Shutdown, and once Run has exited and every
\* SetLocalBackend call has returned, a backend that was started has been
\* shut down.
LifecycleOver ==
    /\ rpc = "done"
    /\ \A b \in Binders : bpc[b] \in {"done", "panicNil", "panicAlreadySet"}

C20_LifecycleOrder ==
    /\ ~startAfterShutdown
    /\ (LifecycleOver /\ startCalls > 0) => shutdownCalls > 0

====
